---------------------------- MODULE Spec2Model ----------------------------
(***************************************************************************)
(* NHS dental contracts dashboard (App.py): the data pipeline of the       *)
(* Streamlit script.  One run of the script is                             *)
(*   load_data (cached)  ->  sidebar widgets  ->  filters  ->  metrics     *)
(*   ->  grouped tables of the tabs.                                       *)
(* Every user interaction re-runs the script from the top.                 *)
(*                                                                         *)
(* Text is a sequence of one-character strings, so that str(), zfill(),    *)
(* string concatenation and parsing are computed character by character.   *)
(* Floats are fixed-point integers in units of 1/Scale.                    *)
(***************************************************************************)
EXTENDS Integers, Sequences, FiniteSets, TLC

(***************************************************************************)
(* Cells of a frame.  Every cell is a record with the same three fields:   *)
(*   k  the kind: "num", "nan", "str", "date", "nat"                       *)
(*   n  the number (fixed point) or the date yyyymmdd                      *)
(*   s  the text of a string cell                                          *)
(***************************************************************************)
Scale == 10

Num(n) == [k |-> "num", n |-> n, s |-> <<>>]

NaN == [k |-> "nan", n |-> 0, s |-> <<>>]

Str(t) == [k |-> "str", n |-> 0, s |-> t]

Date(d) == [k |-> "date", n |-> d, s |-> <<>>]

NaT == [k |-> "nat", n |-> 0, s |-> <<>>]

\* pandas isna(): NaN and NaT are the missing values.
IsNull(c) == c.k \in {"nan", "nat"}

(***************************************************************************)
(* Text helpers.                                                           *)
(***************************************************************************)
Digits == {"0", "1", "2", "3", "4", "5", "6", "7", "8", "9"}

DigitVal(c) ==
  CASE c = "0" -> 0 [] c = "1" -> 1 [] c = "2" -> 2 [] c = "3" -> 3
    [] c = "4" -> 4 [] c = "5" -> 5 [] c = "6" -> 6 [] c = "7" -> 7
    [] c = "8" -> 8 [] c = "9" -> 9

DigitChar(d) ==
  CASE d = 0 -> "0" [] d = 1 -> "1" [] d = 2 -> "2" [] d = 3 -> "3"
    [] d = 4 -> "4" [] d = 5 -> "5" [] d = 6 -> "6" [] d = 7 -> "7"
    [] d = 8 -> "8" [] d = 9 -> "9"

IsDigits(t) == Len(t) > 0 /\ \A i \in 1..Len(t) : t[i] \in Digits

RECURSIVE ParseInt(_)
ParseInt(t) ==
  IF t = <<>> THEN 0
  ELSE 10 * ParseInt(SubSeq(t, 1, Len(t) - 1)) + DigitVal(t[Len(t)])

RECURSIVE FormatInt(_)
FormatInt(n) ==
  IF n < 10 THEN <<DigitChar(n)>>
  ELSE Append(FormatInt(n \div 10), DigitChar(n % 10))

\* A decimal literal with one fractional digit (the resolution of Scale).
IsDecimal(t) ==
  /\ Len(t) >= 3
  /\ t[Len(t) - 1] = "."
  /\ IsDigits(SubSeq(t, 1, Len(t) - 2))
  /\ t[Len(t)] \in Digits

IsNumberText(t) == IsDigits(t) \/ IsDecimal(t)

\* The number a numeric literal denotes, in units of 1/Scale.
ParseNumber(t) ==
  IF IsDigits(t) THEN ParseInt(t) * Scale
  ELSE ParseInt(SubSeq(t, 1, Len(t) - 2)) * Scale + DigitVal(t[Len(t)])

\* str() of a float64: repr always shows a fractional part.
FormatFloat(n) ==
  FormatInt(n \div Scale) \o <<".">> \o FormatInt(n % Scale)

(***************************************************************************)
(* pd.read_csv: the blank field and the default NA markers are missing     *)
(* values; a column's dtype is inferred from all of its fields.            *)
(***************************************************************************)
NAStrings == {<<>>, <<"N", "/", "A">>, <<"N", "A">>, <<"n", "a", "n">>}

IsNAText(t) == t \in NAStrings

ColumnTexts(csv, c) == {csv.rows[i][c] : i \in 1..Len(csv.rows)}

InferDtype(texts) ==
  IF texts = {} THEN "object"
  ELSE IF \A t \in texts : IsDigits(t) THEN "int64"
  ELSE IF \A t \in texts : IsNAText(t) \/ IsNumberText(t) THEN "float64"
  ELSE "object"

ParseField(dtype, t) ==
  IF IsNAText(t) THEN NaN
  ELSE IF dtype = "object" THEN Str(t)
  ELSE Num(ParseNumber(t))

read_csv(csv) ==
  LET dt == [c \in csv.columns |-> InferDtype(ColumnTexts(csv, c))]
  IN  [columns |-> csv.columns,
       dtypes  |-> dt,
       rows    |-> [i \in 1..Len(csv.rows) |->
                     [index |-> i - 1,
                      cells |-> [c \in csv.columns |->
                                   ParseField(dt[c], csv.rows[i][c])]]]]

(***************************************************************************)
(* Frame helpers: a Series is a sequence with one value per row; df[c] =   *)
(* series assigns a column.                                                *)
(***************************************************************************)
Series(d, c) == [i \in 1..Len(d.rows) |-> d.rows[i].cells[c]]

SetColumn(d, c, t, series) ==
  LET cs == d.columns \cup {c}
  IN  [columns |-> cs,
       dtypes  |-> [x \in cs |-> IF x = c THEN t ELSE d.dtypes[x]],
       rows    |-> [i \in 1..Len(d.rows) |->
                     [index |-> d.rows[i].index,
                      cells |-> [x \in cs |->
                                   IF x = c THEN series[i]
                                   ELSE d.rows[i].cells[x]]]]]

(***************************************************************************)
(* load_data, lines 25-30: YEARMONTH -> YEARMONTHSTR -> YEARMONTHDATE.     *)
(***************************************************************************)
\* Series.astype(str): str() of each element, NaN included.
AsTypeStr(dtype, c) ==
  IF c.k = "nan" THEN <<"n", "a", "n">>
  ELSE IF c.k = "str" THEN c.s
  ELSE IF dtype = "int64" THEN FormatInt(c.n \div Scale)
  ELSE FormatFloat(c.n)

RECURSIVE ZFill(_, _)
ZFill(t, w) == IF Len(t) >= w THEN t ELSE ZFill(<<"0">> \o t, w)

\* pd.to_datetime(text, format="%Y%m%d", errors="coerce"): the whole text
\* must match; an impossible date is NaT.
ToDatetime(t) ==
  IF Len(t) = 8 /\ IsDigits(t)
  THEN LET y == ParseInt(SubSeq(t, 1, 4))
           m == ParseInt(SubSeq(t, 5, 6))
           d == ParseInt(SubSeq(t, 7, 8))
       \* (the callers' day is always "01", so month lengths play no part)
       IN  IF y >= 1 /\ m \in 1..12 /\ d \in 1..28
           THEN Date(y * 10000 + m * 100 + d)
           ELSE NaT
  ELSE NaT

YearMonthStr(d) ==
  [i \in 1..Len(d.rows) |->
     Str(ZFill(AsTypeStr(d.dtypes["YEARMONTH"], Series(d, "YEARMONTH")[i]), 6))]

YearMonthDate(d) ==
  [i \in 1..Len(d.rows) |->
     ToDatetime(Series(d, "YEARMONTHSTR")[i].s \o <<"0", "1">>)]

NormalizeYearMonth(d) ==
  IF "YEARMONTH" \in d.columns
  THEN LET d1 == SetColumn(d, "YEARMONTHSTR", "object", YearMonthStr(d))
       IN  SetColumn(d1, "YEARMONTHDATE", "datetime64", YearMonthDate(d1))
  ELSE d

(***************************************************************************)
(* load_data, lines 32-42: pd.to_numeric(errors="coerce") on numeric_cols. *)
(***************************************************************************)
numeric_cols ==
  <<"TOTALFINVALUE", "CONTRACTEDUDA", "CONTRACTEDUOA",
    "GENERALDENTFINVALUE", "ORTHOFINVALUE">>

\* Variant without the conversion: the column is left as it was read.
ToNumericSkipped(c) == c

ToNumeric(c) ==
  IF c.k = "str"
  THEN IF IsNumberText(c.s) THEN Num(ParseNumber(c.s)) ELSE NaN
  ELSE c

ToNumericDtype(dtype) == IF dtype = "object" THEN "float64" ELSE dtype

RECURSIVE ConvertNumeric(_, _)
ConvertNumeric(d, i) ==
  IF i > Len(numeric_cols) THEN d
  ELSE LET col == numeric_cols[i]
       IN  IF col \in d.columns
           THEN ConvertNumeric(
                  SetColumn(d, col, ToNumericDtype(d.dtypes[col]),
                            [n \in 1..Len(d.rows) |-> ToNumeric(Series(d, col)[n])]),
                  i + 1)
           ELSE ConvertNumeric(d, i + 1)

load_data(csv) == ConvertNumeric(NormalizeYearMonth(read_csv(csv)), 1)


(***************************************************************************)
(* Series helpers.                                                         *)
(***************************************************************************)
\* Series.dropna().unique(), as a set (the code sorts it for display only).
UniqueValues(d, c) ==
  {x \in {d.rows[i].cells[c] : i \in 1..Len(d.rows)} : ~IsNull(x)}

NonNullNumbers(d, c) ==
  {d.rows[i].cells[c].n : i \in {j \in 1..Len(d.rows) : d.rows[j].cells[c].k = "num"}}

\* Series.min() / Series.max(): missing values are skipped; NaN when none is left.
SeriesMin(d, c) ==
  LET ns == NonNullNumbers(d, c)
  IN  IF ns = {} THEN NaN ELSE Num(CHOOSE n \in ns : \A m \in ns : n <= m)

SeriesMax(d, c) ==
  LET ns == NonNullNumbers(d, c)
  IN  IF ns = {} THEN NaN ELSE Num(CHOOSE n \in ns : \A m \in ns : n >= m)

\* Series.sum(): missing values are skipped, the empty sum is 0.
RECURSIVE SumRows(_, _)
SumRows(rows, c) ==
  IF rows = <<>> THEN 0
  ELSE (IF Head(rows).cells[c].k = "num" THEN Head(rows).cells[c].n ELSE 0)
       + SumRows(Tail(rows), c)

\* Python round(x, 0) and the format spec ".0f": to the nearest whole number,
\* halves to the even one.
RoundHalfEven(n) ==
  LET q == n \div Scale
      r == n % Scale
  IN  IF 2 * r < Scale THEN q * Scale
      ELSE IF 2 * r > Scale THEN (q + 1) * Scale
      ELSE IF q % 2 = 0 THEN q * Scale ELSE (q + 1) * Scale

Round0(c) == IF c.k = "num" THEN Num(RoundHalfEven(c.n)) ELSE c

\* Variant with an exclusive lower bound.
Gt(a, b) == a.k = "num" /\ b.k = "num" /\ a.n > b.n

\* Comparisons of a Series with a scalar: False wherever either side is NaN.
Ge(a, b) == a.k = "num" /\ b.k = "num" /\ a.n >= b.n

Le(a, b) == a.k = "num" /\ b.k = "num" /\ a.n <= b.n

\* df[mask]: the rows where the boolean mask holds, in their order, index kept.
RECURSIVE MaskedRows(_, _, _)
MaskedRows(rows, mask, i) ==
  IF i > Len(rows) THEN <<>>
  ELSE (IF mask[i] THEN <<rows[i]>> ELSE <<>>) \o MaskedRows(rows, mask, i + 1)

Where(d, mask) ==
  [columns |-> d.columns, dtypes |-> d.dtypes, rows |-> MaskedRows(d.rows, mask, 1)]

\* Series.isin(values)
IsIn(d, c, values) == [i \in 1..Len(d.rows) |-> Series(d, c)[i] \in values]

(***************************************************************************)
(* Sidebar widgets, lines 66-100: the value each widget has on the first   *)
(* run, and the values the user can give it afterwards.                    *)
(***************************************************************************)
commissioners(d) ==
  IF "COMMISSIONERNAME" \in d.columns THEN UniqueValues(d, "COMMISSIONERNAME") ELSE {}

\* default=commissioners; [] when the column is missing.
DefaultComm(d) == commissioners(d)

prison_vals(d) ==
  IF "PRISONIND" \in d.columns THEN UniqueValues(d, "PRISONIND") ELSE {}

NoPrison == [none |-> TRUE, vals |-> {}]

\* default=prison_vals; None when the column is missing.
DefaultPrison(d) ==
  IF "PRISONIND" \in d.columns
  THEN [none |-> FALSE, vals |-> prison_vals(d)]
  ELSE NoPrison

NoRange == [none |-> TRUE, low |-> NaN, high |-> NaN]

\* value=(round(min_value, 0), round(max_value, 0)); None when the column is missing.
DefaultRange(d) ==
  IF "TOTALFINVALUE" \in d.columns
  THEN [none |-> FALSE,
        low  |-> Round0(SeriesMin(d, "TOTALFINVALUE")),
        high |-> Round0(SeriesMax(d, "TOTALFINVALUE"))]
  ELSE NoRange

\* step=1000.0
STEP == 1000 * Scale

\* The positions of the slider: from min_value in steps of STEP, and max_value.
SliderStops(d) ==
  LET lo == DefaultRange(d).low
      hi == DefaultRange(d).high
  IN  IF lo.k = "num" /\ hi.k = "num"
      THEN {lo.n + k * STEP : k \in 0..((hi.n - lo.n) \div STEP)} \cup {hi.n}
      ELSE {}

(***************************************************************************)
(* Apply filters, lines 105-118.                                           *)
(***************************************************************************)
ApplyFilters(d, sel_comm, sel_prison, v_range) ==
  LET f0 == d
      f1 == IF sel_comm # {}
            THEN Where(f0, IsIn(f0, "COMMISSIONERNAME", sel_comm))
            ELSE f0
      f2 == IF ~sel_prison.none /\ "PRISONIND" \in f1.columns
            THEN Where(f1, IsIn(f1, "PRISONIND", sel_prison.vals))
            ELSE f1
      f3 == IF ~v_range.none /\ "TOTALFINVALUE" \in f2.columns
            THEN Where(f2, [i \in 1..Len(f2.rows) |->
                             /\ Ge(Series(f2, "TOTALFINVALUE")[i], v_range.low)
                             /\ Le(Series(f2, "TOTALFINVALUE")[i], v_range.high)])
            ELSE f2
  IN  f3

(***************************************************************************)
(* Top Metrics, lines 125-151.                                             *)
(***************************************************************************)
\* The format spec ",": groups of three digits.
RECURSIVE FormatThousands(_)
FormatThousands(n) ==
  IF n < 1000 THEN FormatInt(n)
  ELSE FormatThousands(n \div 1000) \o <<",">> \o ZFill(FormatInt(n % 1000), 3)

\* f"{x:,.0f}"
Format0f(n) == FormatThousands(RoundHalfEven(n) \div Scale)

NotAvailable == <<"N", "/", "A">>

\* One metric: the value handed to the format, and the text shown.
Metric(d, c) ==
  IF c \in d.columns
  THEN [available |-> TRUE, sum |-> SumRows(d.rows, c),
        text |-> Format0f(SumRows(d.rows, c))]
  ELSE [available |-> FALSE, sum |-> 0, text |-> NotAvailable]

TopMetrics(d) ==
  [contracts |-> FormatThousands(Len(d.rows)),
   value     |-> Metric(d, "TOTALFINVALUE"),
   uda       |-> Metric(d, "CONTRACTEDUDA"),
   uoa       |-> Metric(d, "CONTRACTEDUOA")]

(***************************************************************************)
(* Grouped tables of the tabs, lines 172-176, 197-201, 223-228, 255-259:   *)
(* df.groupby(g, as_index=False)[v].sum().sort_values(v, ascending=False). *)
(***************************************************************************)
\* groupby (dropna=True by default): one group per non-missing key.
GroupKeys(d, g) == UniqueValues(d, g)

GroupBySum(d, g, v) ==
  {[key |-> k, sum |-> SumRows(SelectSeq(d.rows, LAMBDA r : r.cells[g] = k), v)]
     : k \in GroupKeys(d, g)}

\* sort_values(ascending=False) with the default kind="quicksort", which is
\* not a stable sort: every arrangement with the sums non-increasing is a
\* possible result.
RECURSIVE SortValuesDesc(_)
SortValuesDesc(G) ==
  IF G = {} THEN {<<>>}
  ELSE LET top == {g \in G : \A h \in G : g.sum >= h.sum}
       IN  UNION {{<<g>> \o rest : rest \in SortValuesDesc(G \ {g})} : g \in top}

\* Variant sorting ascending (ascending=False left out).
RECURSIVE SortValuesAsc(_)
SortValuesAsc(G) ==
  IF G = {} THEN {<<>>}
  ELSE LET low == {g \in G : \A h \in G : g.sum <= h.sum}
       IN  UNION {{<<g>> \o rest : rest \in SortValuesAsc(G \ {g})} : g \in low}

GroupAggregateAscending(d, g, v) == SortValuesAsc(GroupBySum(d, g, v))

GroupAggregate(d, g, v) == SortValuesDesc(GroupBySum(d, g, v))

\* Variant taking the last n rows (.tail(n)).
TailRows(s, n) == SubSeq(s, (IF Len(s) < n THEN 1 ELSE Len(s) - n + 1), Len(s))

\* .head(n)
HeadRows(s, n) == SubSeq(s, 1, IF Len(s) < n THEN Len(s) ELSE n)

TOP_PROVIDERS == 20

NotShown == [shown |-> FALSE, rows |-> <<>>]

\* Tab 1: the possible df_comm tables.
TabCommissioner(d) ==
  IF "TOTALFINVALUE" \in d.columns /\ "COMMISSIONERNAME" \in d.columns
  THEN {[shown |-> TRUE, rows |-> s]
          : s \in GroupAggregate(d, "COMMISSIONERNAME", "TOTALFINVALUE")}
  ELSE {NotShown}

\* Tab 3: the possible df_prov tables.
TabProviders(d) ==
  IF "TOTALFINVALUE" \in d.columns /\ "PROVIDERNAME" \in d.columns
  THEN {[shown |-> TRUE, rows |-> HeadRows(s, TOP_PROVIDERS)]
          : s \in GroupAggregate(d, "PROVIDERNAME", "TOTALFINVALUE")}
  ELSE {NotShown}

(***************************************************************************)
(* State.                                                                  *)
(***************************************************************************)
VARIABLES
  raw,              \* the CSV source: its header and its rows of text fields
  cache,            \* st.cache_data entry of load_data for the source
  df,               \* the frame load_data returned to the current run
  selected_comm,    \* multiselect "Commissioner (ICB)"
  selected_prison,  \* multiselect "Prison Indicator", or None
  value_range,      \* slider "Total Financial Value", or None
  df_filtered,      \* the filtered frame
  metrics,          \* the four top metrics
  df_comm,          \* tab 1 table
  df_prov           \* tab 3 table

vars == <<raw, cache, df, selected_comm, selected_prison, value_range,
          df_filtered, metrics, df_comm, df_prov>>

EmptyFrame == read_csv([columns |-> {}, rows |-> <<>>])

NoEntry == [hit |-> FALSE, value |-> EmptyFrame]

\* Before the first run of the script on a source.
Start(csvs) ==
  /\ raw \in csvs
  /\ cache = NoEntry
  /\ df = EmptyFrame
  /\ selected_comm = {}
  /\ selected_prison = NoPrison
  /\ value_range = NoRange
  /\ df_filtered = EmptyFrame
  /\ metrics = TopMetrics(EmptyFrame)
  /\ df_comm = NotShown
  /\ df_prov = NotShown

\* Variant of a run that filters the cached frame in place: the cache entry
\* ends up holding the filtered rows.
RunFilteringInPlace(sel_comm, sel_prison, v_range) ==
  /\ df' = (IF cache.hit THEN cache.value ELSE load_data(raw))
  /\ selected_comm' = sel_comm
  /\ selected_prison' = sel_prison
  /\ value_range' = v_range
  /\ df_filtered' = ApplyFilters(df', sel_comm, sel_prison, v_range)
  /\ cache' = [hit |-> TRUE, value |-> df_filtered']
  /\ metrics' = TopMetrics(df_filtered')
  /\ df_comm' \in TabCommissioner(df_filtered')
  /\ df_prov' \in TabProviders(df_filtered')
  /\ UNCHANGED raw

(***************************************************************************)
(* One run of the script with the widgets at the given values: load_data   *)
(* answers from the cache when it holds the source, the filters start      *)
(* from a copy of df, and every output is computed anew.                   *)
(***************************************************************************)
Run(sel_comm, sel_prison, v_range) ==
  /\ df' = (IF cache.hit THEN cache.value ELSE load_data(raw))
  /\ cache' = [hit |-> TRUE, value |-> df']
  /\ selected_comm' = sel_comm
  /\ selected_prison' = sel_prison
  /\ value_range' = v_range
  /\ df_filtered' = ApplyFilters(df', sel_comm, sel_prison, v_range)
  /\ metrics' = TopMetrics(df_filtered')
  /\ df_comm' \in TabCommissioner(df_filtered')
  /\ df_prov' \in TabProviders(df_filtered')
  /\ UNCHANGED raw

\* The first run: every widget takes its default.
FirstRun ==
  /\ ~cache.hit
  /\ LET d == load_data(raw)
     IN  Run(DefaultComm(d), DefaultPrison(d), DefaultRange(d))

\* The user changes the commissioner selection; the script runs again.
ChangeCommissioner ==
  /\ cache.hit
  /\ "COMMISSIONERNAME" \in df.columns
  /\ \E S \in SUBSET commissioners(df) :
       Run(S, selected_prison, value_range)

\* The user changes the prison-indicator selection; the script runs again.
ChangePrison ==
  /\ cache.hit
  /\ "PRISONIND" \in df.columns
  /\ \E S \in SUBSET prison_vals(df) :
       Run(selected_comm, [none |-> FALSE, vals |-> S], value_range)

\* The user moves the slider; the script runs again.
ChangeValueRange ==
  /\ cache.hit
  /\ "TOTALFINVALUE" \in df.columns
  /\ \E lo \in SliderStops(df), hi \in SliderStops(df) :
       /\ lo <= hi
       /\ Run(selected_comm, selected_prison,
              [none |-> FALSE, low |-> Num(lo), high |-> Num(hi)])

Next == FirstRun \/ ChangeCommissioner \/ ChangePrison \/ ChangeValueRange

(***************************************************************************)
(* Sources.  A source is a header (the set of column names) and rows of    *)
(* text fields.  Each specification draws its source from one family.      *)
(***************************************************************************)
MaxRows == 2

MaxProviders == 22

Blank == <<>>

Fields(cols, texts) ==
  {r \in [cols -> UNION {texts[c] : c \in cols}] : \A c \in cols : r[c] \in texts[c]}

SeqsUpTo(S, n) == UNION {[1..k -> S] : k \in 0..n}

\* The slider needs a finite minimum and maximum: a source with a
\* TOTALFINVALUE column has a number in it.
SliderHasEnds(cols, rs) ==
  "TOTALFINVALUE" \in cols =>
    \E i \in 1..Len(rs) : IsNumberText(rs[i]["TOTALFINVALUE"])

Csvs(cols, texts) ==
  {[columns |-> cols, rows |-> rs] :
     rs \in {x \in SeqsUpTo(Fields(cols, texts), MaxRows) : SliderHasEnds(cols, x)}}

AllColumns ==
  {"YEARMONTH", "COMMISSIONERNAME", "PRISONIND", "PROVIDERNAME",
   "TOTALFINVALUE", "CONTRACTEDUDA", "CONTRACTEDUOA"}

\* Filters: commissioner, prison indicator and value, each with a blank.
FilterTexts ==
  [c \in AllColumns |->
     CASE c = "COMMISSIONERNAME" -> {<<"A">>, <<"B">>, Blank}
       [] c = "PRISONIND"        -> {<<"N">>, <<"Y">>, Blank}
       [] c = "TOTALFINVALUE"    -> {<<"9", "9", "9", ".", "5">>, <<"2", "0", "0", "0">>, Blank}
       [] OTHER                  -> {Blank}]

FilterCsvs ==
  Csvs({"COMMISSIONERNAME", "PRISONIND", "TOTALFINVALUE"}, FilterTexts)
  \cup Csvs({"PRISONIND", "TOTALFINVALUE"}, FilterTexts)
  \cup Csvs({"COMMISSIONERNAME", "TOTALFINVALUE"}, FilterTexts)
  \cup Csvs({"COMMISSIONERNAME", "PRISONIND"}, FilterTexts)

\* Grouping: commissioner and provider keys with blanks, values that tie.
GroupTexts ==
  [c \in AllColumns |->
     CASE c = "COMMISSIONERNAME" -> {<<"A">>, <<"B">>, Blank}
       [] c = "PROVIDERNAME"     -> {<<"P">>, Blank}
       [] c = "PRISONIND"        -> {<<"N">>}
       [] c = "TOTALFINVALUE"    -> {<<"1", "0", "0", "0">>, <<"2", "0", "0", "0">>, Blank}
       [] OTHER                  -> {Blank}]

GroupCsvs ==
  Csvs({"COMMISSIONERNAME", "PROVIDERNAME", "PRISONIND", "TOTALFINVALUE"}, GroupTexts)

\* Loading: well-formed and malformed YEARMONTH and numeric fields.
LoadTexts ==
  [c \in AllColumns |->
     CASE c = "YEARMONTH"        -> {<<"2", "0", "2", "5", "0", "6">>,
                                     <<"2", "0", "2", "5", "1", "3">>,
                                     <<"1", "2">>, <<"J", "u", "n">>, Blank}
       [] c = "TOTALFINVALUE"    -> {<<"1", "0", "0", "0">>, <<"2", "0", "0", "0", ".", "5">>,
                                     <<"a", "b", "c">>, <<"N", "/", "A">>}
       [] c = "CONTRACTEDUDA"    -> {<<"5">>, <<"a", "b", "c">>, Blank}
       [] c = "CONTRACTEDUOA"    -> {<<"7">>, <<"1", ".", "5">>, <<"-">>}
       [] c = "COMMISSIONERNAME" -> {<<"A">>}
       [] c = "PRISONIND"        -> {<<"N">>}
       [] OTHER                  -> {Blank}]

LoadCsvs ==
  Csvs({"YEARMONTH", "TOTALFINVALUE", "COMMISSIONERNAME", "PRISONIND"}, LoadTexts)
  \cup Csvs({"CONTRACTEDUDA", "CONTRACTEDUOA"}, LoadTexts)

\* Ranking: one row per provider, more providers than the table shows.
\* Row i is provider "P<i>" with value i hundred (ascending) or the
\* reverse; with a tie, the values two and three hundred fall together.
RankValue(i, n, ascending, tie) ==
  LET j == IF ascending THEN i ELSE n + 1 - i
  IN  IF tie /\ j = 2 THEN 3 ELSE j

RankCsv(n, ascending, tie) ==
  [columns |-> {"COMMISSIONERNAME", "PROVIDERNAME", "PRISONIND", "TOTALFINVALUE"},
   rows |-> [i \in 1..n |->
      [c \in {"COMMISSIONERNAME", "PROVIDERNAME", "PRISONIND", "TOTALFINVALUE"} |->
         CASE c = "COMMISSIONERNAME" -> IF i % 2 = 0 THEN <<"A">> ELSE <<"B">>
           [] c = "PROVIDERNAME"     -> <<"P">> \o FormatInt(i)
           [] c = "PRISONIND"        -> <<"N">>
           [] c = "TOTALFINVALUE"    -> FormatInt(RankValue(i, n, ascending, tie) * 100)]]]

RankCsvs ==
  {RankCsv(n, a, t) : n \in (MaxProviders - 3)..MaxProviders, a \in BOOLEAN, t \in BOOLEAN}

(***************************************************************************)
(* Specifications.                                                         *)
(***************************************************************************)
Init == Start(FilterCsvs)

Spec == Init /\ [][Next]_vars

InitGroup == Start(GroupCsvs)

SpecGroup == InitGroup /\ [][Next]_vars

InitLoad == Start(LoadCsvs)

SpecLoad == InitLoad /\ [][Next]_vars

InitRank == Start(RankCsvs)

SpecRank == InitRank /\ [][Next]_vars

(***************************************************************************)
(* Vocabulary of the properties: what a predicate of the filter step       *)
(* means, stated on raw material (df, the widget values), not through      *)
(* ApplyFilters.                                                           *)
(***************************************************************************)
Has(c) == c \in df.columns

RowsOf(d) == {d.rows[i] : i \in 1..Len(d.rows)}

Kept(r) == r \in RowsOf(df_filtered)

\* A categorical predicate as the specification defines it: inactive when
\* its column is absent, and an empty allowed-set restricts nothing.
CategoricalOK(c, allowed, r) == ~Has(c) \/ allowed = {} \/ r.cells[c] \in allowed

\* The range predicate: inactive when its column is absent.
InRange(r) ==
  /\ r.cells["TOTALFINVALUE"].k = "num"
  /\ value_range.low.k = "num" /\ value_range.high.k = "num"
  /\ value_range.low.n <= r.cells["TOTALFINVALUE"].n
  /\ r.cells["TOTALFINVALUE"].n <= value_range.high.n

RangeOK(r) == ~Has("TOTALFINVALUE") \/ InRange(r)

\* Plain membership, as the code applies a categorical predicate it applies.
CommApplied == Has("COMMISSIONERNAME") /\ selected_comm # {}

PrisonApplied == Has("PRISONIND") /\ ~selected_prison.none

FailsCategorical(r) ==
  \/ CommApplied /\ r.cells["COMMISSIONERNAME"] \notin selected_comm
  \/ PrisonApplied /\ r.cells["PRISONIND"] \notin selected_prison.vals

AtDefaults ==
  /\ selected_comm = DefaultComm(df)
  /\ selected_prison = DefaultPrison(df)
  /\ value_range = DefaultRange(df)

(***************************************************************************)
(* C1.  A row is in the filtered dataset if and only if it satisfies every *)
(* active predicate (logical AND); a predicate whose column is absent is   *)
(* inactive.  Fails: with the prison column present and nothing selected,  *)
(* every row satisfies every predicate and the code keeps none (see C2).   *)
(***************************************************************************)
C1_FilterIsConjunction ==
  cache.hit =>
    df_filtered.rows =
      SelectSeq(df.rows,
                LAMBDA r : /\ CategoricalOK("COMMISSIONERNAME", selected_comm, r)
                           /\ CategoricalOK("PRISONIND", selected_prison.vals, r)
                           /\ RangeOK(r))

(***************************************************************************)
(* C2.  For the commissioner and the prison predicate alike, an empty      *)
(* selection removes no row: a row the other predicates accept is kept.    *)
(* Fails for the prison indicator: isin([]) removes every row.             *)
(***************************************************************************)
C2_EmptySelectionRemovesNothing ==
  cache.hit =>
    /\ (Has("COMMISSIONERNAME") /\ selected_comm = {}) =>
         \A r \in RowsOf(df) :
           (CategoricalOK("PRISONIND", selected_prison.vals, r) /\ RangeOK(r)) => Kept(r)
    /\ (Has("PRISONIND") /\ selected_prison.vals = {}) =>
         \A r \in RowsOf(df) :
           (CategoricalOK("COMMISSIONERNAME", selected_comm, r) /\ RangeOK(r)) => Kept(r)

(***************************************************************************)
(* C3.  With the range predicate active, a kept row has a TOTALFINVALUE v  *)
(* with low <= v <= high (so no kept row has a null value), and a row with *)
(* low <= v <= high is dropped only by a categorical predicate.            *)
(***************************************************************************)
C3_RangeInclusive ==
  (cache.hit /\ Has("TOTALFINVALUE")) =>
    /\ \A r \in RowsOf(df_filtered) : InRange(r)
    /\ \A r \in RowsOf(df) : (InRange(r) /\ ~Kept(r)) => FailsCategorical(r)

\* A row sitting on both bounds is kept while a row below the range and a
\* row without a value are not.
C3_Witness ==
  /\ cache.hit /\ Has("TOTALFINVALUE")
  /\ \E r \in RowsOf(df_filtered) :
       /\ r.cells["TOTALFINVALUE"].n = value_range.low.n
       /\ r.cells["TOTALFINVALUE"].n = value_range.high.n
  /\ \E r \in RowsOf(df) :
       /\ ~Kept(r) /\ ~FailsCategorical(r)
       /\ r.cells["TOTALFINVALUE"].k = "num"
       /\ r.cells["TOTALFINVALUE"].n < value_range.low.n

(***************************************************************************)
(* Vocabulary of the grouped tables.                                       *)
(***************************************************************************)
RECURSIVE SumOfSums(_)
SumOfSums(t) == IF t = <<>> THEN 0 ELSE Head(t).sum + SumOfSums(Tail(t))

\* The total of one key's rows in the filtered frame.
KeyTotal(g, k) ==
  SumRows(SelectSeq(df_filtered.rows, LAMBDA r : r.cells[g] = k), "TOTALFINVALUE")

\* Where a key first appears in the filtered frame.
FirstAppearance(g, k) ==
  CHOOSE i \in 1..Len(df_filtered.rows) :
    /\ df_filtered.rows[i].cells[g] = k
    /\ \A j \in 1..(i - 1) : df_filtered.rows[j].cells[g] # k

Descending(t) == \A i, j \in 1..Len(t) : i < j => t[i].sum >= t[j].sum

(***************************************************************************)
(* C4.  The sum of the per-group sums equals the overall sum reported by   *)
(* the summary metric; rows with a null group key are not lost.  Fails:    *)
(* groupby drops the rows whose key is null.                               *)
(***************************************************************************)
C4_GroupSumsAddUp ==
  /\ df_comm.shown => SumOfSums(df_comm.rows) = metrics.value.sum
  /\ (df_prov.shown /\ Len(df_prov.rows) < TOP_PROVIDERS) =>
       SumOfSums(df_prov.rows) = metrics.value.sum

(***************************************************************************)
(* C5 as stated.  Rows are ordered by summed value, largest first, and of  *)
(* two groups with equal sums the one whose key appears first in the       *)
(* filtered dataset comes first.  Fails on the tie rule.                   *)
(***************************************************************************)
C5_TiesByFirstAppearance ==
  df_comm.shown =>
    \A i, j \in 1..Len(df_comm.rows) :
      i < j =>
        \/ df_comm.rows[i].sum > df_comm.rows[j].sum
        \/ /\ df_comm.rows[i].sum = df_comm.rows[j].sum
           /\ FirstAppearance("COMMISSIONERNAME", df_comm.rows[i].key)
                < FirstAppearance("COMMISSIONERNAME", df_comm.rows[j].key)

(***************************************************************************)
(* C5 amended.  The rows of a group aggregation are ordered by summed      *)
(* value, largest first: no row has a larger sum than a row before it.     *)
(* Each row carries the total of its key, one row per key.                 *)
(***************************************************************************)
C5_OrderedBySum ==
  /\ df_comm.shown =>
       /\ Descending(df_comm.rows)
       /\ \A i \in 1..Len(df_comm.rows) :
            df_comm.rows[i].sum = KeyTotal("COMMISSIONERNAME", df_comm.rows[i].key)
       /\ \A i, j \in 1..Len(df_comm.rows) :
            df_comm.rows[i].key = df_comm.rows[j].key => i = j
  /\ df_prov.shown => Descending(df_prov.rows)

\* The sort moved a group: the larger total belongs to the key that appears
\* later in the filtered frame.
C5_Witness ==
  /\ df_comm.shown
  /\ Len(df_comm.rows) >= 2
  /\ df_comm.rows[1].sum > df_comm.rows[2].sum
  /\ FirstAppearance("COMMISSIONERNAME", df_comm.rows[1].key)
       > FirstAppearance("COMMISSIONERNAME", df_comm.rows[2].key)

(***************************************************************************)
(* C6.  The top-providers table is the first min(n, groups) rows of the    *)
(* descending aggregation of TOTALFINVALUE by PROVIDERNAME, n = 20: its    *)
(* rows are provider groups with their totals, in descending order, no     *)
(* provider left out has a strictly larger total than one shown, and with  *)
(* fewer than n providers all are shown.                                   *)
(***************************************************************************)
ProviderKeys == UniqueValues(df_filtered, "PROVIDERNAME")

ShownProviders == {df_prov.rows[i].key : i \in 1..Len(df_prov.rows)}

C6_TopProviders ==
  df_prov.shown =>
    /\ Len(df_prov.rows) =
         (IF Cardinality(ProviderKeys) < 20 THEN Cardinality(ProviderKeys) ELSE 20)
    /\ Cardinality(ShownProviders) = Len(df_prov.rows)
    /\ ShownProviders \subseteq ProviderKeys
    /\ \A i \in 1..Len(df_prov.rows) :
         df_prov.rows[i].sum = KeyTotal("PROVIDERNAME", df_prov.rows[i].key)
    /\ Descending(df_prov.rows)
    /\ \A k \in ProviderKeys \ ShownProviders :
         \A i \in 1..Len(df_prov.rows) :
           KeyTotal("PROVIDERNAME", k) <= df_prov.rows[i].sum

\* More providers than the table holds: the table is cut.
C6_Witness ==
  /\ df_prov.shown
  /\ Len(df_prov.rows) = 20
  /\ Cardinality(ProviderKeys) > 20

(***************************************************************************)
(* Vocabulary of loading: what a source field denotes, read off the text.  *)
(***************************************************************************)
\* A 6-digit year+month with a month of the calendar.
ValidYearMonth(t) ==
  /\ Len(t) = 6
  /\ IsDigits(t)
  /\ ParseInt(SubSeq(t, 1, 4)) >= 1
  /\ ParseInt(SubSeq(t, 5, 6)) \in 1..12

FirstOfMonth(t) == Date(ParseInt(t) * 100 + 1)

\* The source row a frame row was read from.
SourceRow(r) == raw.rows[r.index + 1]

RECURSIVE SumConverted(_, _)
SumConverted(rows, c) ==
  IF rows = <<>> THEN 0
  ELSE (IF IsNumberText(SourceRow(Head(rows))[c])
        THEN ParseNumber(SourceRow(Head(rows))[c]) ELSE 0)
       + SumConverted(Tail(rows), c)

Tracked == {"TOTALFINVALUE", "CONTRACTEDUDA", "CONTRACTEDUOA"}

MetricOf(c) ==
  CASE c = "TOTALFINVALUE" -> metrics.value
    [] c = "CONTRACTEDUDA" -> metrics.uda
    [] c = "CONTRACTEDUOA" -> metrics.uoa

(***************************************************************************)
(* C7.  With a YEARMONTH column, every row's derived date is the first day *)
(* of the encoded month when the field is a valid 6-digit year+month, and  *)
(* null otherwise; no row is dropped.  Fails: one blank YEARMONTH field    *)
(* makes the column float64, str() of 202506.0 is "202506.0", and every    *)
(* date of the column is NaT.                                              *)
(***************************************************************************)
C7_YearMonthDate ==
  (cache.hit /\ "YEARMONTH" \in raw.columns) =>
    /\ Len(df.rows) = Len(raw.rows)
    /\ \A i \in 1..Len(df.rows) :
         df.rows[i].cells["YEARMONTHDATE"] =
           (IF ValidYearMonth(raw.rows[i]["YEARMONTH"])
            THEN FirstOfMonth(raw.rows[i]["YEARMONTH"])
            ELSE NaT)

(***************************************************************************)
(* C8.  For each tracked numeric column of the source, every field that    *)
(* is a number is converted and every other field becomes a null cell,     *)
(* row by row; the metric is the sum of the converted values of the        *)
(* filtered rows.  For a tracked column not in the source the metric is    *)
(* "N/A".                                                                  *)
(***************************************************************************)
C8_NumericTotals ==
  cache.hit =>
    \A c \in Tracked :
      IF c \in raw.columns
      THEN /\ Len(df.rows) = Len(raw.rows)
           /\ \A i \in 1..Len(df.rows) :
                df.rows[i].cells[c] =
                  (IF IsNumberText(raw.rows[i][c])
                   THEN Num(ParseNumber(raw.rows[i][c])) ELSE NaN)
           /\ MetricOf(c).available
           /\ MetricOf(c).sum = SumConverted(df_filtered.rows, c)
           /\ MetricOf(c).text = Format0f(SumConverted(df_filtered.rows, c))
      ELSE /\ ~MetricOf(c).available
           /\ MetricOf(c).text = NotAvailable

\* A column with a number and with text that is no number, both among the
\* filtered rows, beside a tracked column the source does not have.
C8_Witness ==
  /\ cache.hit
  /\ "TOTALFINVALUE" \notin raw.columns
  /\ \E c \in Tracked \cap raw.columns :
       /\ \E r \in RowsOf(df_filtered) :
            ~IsNAText(SourceRow(r)[c]) /\ ~IsNumberText(SourceRow(r)[c])
       /\ \E r \in RowsOf(df_filtered) : IsNumberText(SourceRow(r)[c])
       /\ MetricOf(c).sum > 0

(***************************************************************************)
(* C9.  Whatever the filter parameters were before, the filtered dataset   *)
(* is the current parameters applied to the normalized dataset of the      *)
(* source, and the cached normalized dataset is the one load_data made.    *)
(***************************************************************************)
C9_FilteredFromNormalized ==
  cache.hit =>
    /\ cache.value = load_data(raw)
    /\ df = load_data(raw)
    /\ df_filtered.columns = df.columns
    /\ df_filtered.rows =
         SelectSeq(load_data(raw).rows,
                   LAMBDA r : ~FailsCategorical(r) /\ RangeOK(r))

\* All three widgets away from their defaults, part of the rows kept.
C9_Witness ==
  /\ cache.hit
  /\ selected_comm # DefaultComm(df)
  /\ selected_prison # DefaultPrison(df)
  /\ value_range # DefaultRange(df)
  /\ Len(df_filtered.rows) > 0
  /\ Len(df_filtered.rows) < Len(df.rows)

(***************************************************************************)
(* C10.  With every widget at its default the filtered dataset equals the  *)
(* loaded dataset.  Fails: the default selections list no null, so rows    *)
(* with a null commissioner, prison indicator or value are removed, and    *)
(* the rounded slider ends cut off a fractional minimum or maximum.        *)
(***************************************************************************)
C10_DefaultsKeepAll ==
  (cache.hit /\ AtDefaults) => df_filtered.rows = df.rows

=============================================================================
